---- MODULE Spec2Model ----
(***************************************************************************)
(* terminal-prompt: the terminal handle (src/sys/unix.rs,                  *)
(* src/sys/windows.rs), the terminal mode snapshots and their mutators,    *)
(* and the prompting facade (src/lib.rs).                                  *)
(*                                                                         *)
(* A mode snapshot is the flag word the mutators work on (termios.c_lflag  *)
(* on Unix, the console input mode on Windows), written as the set of the  *)
(* bit positions that are set: a | b is a \cup b, a & b is a \cap b and    *)
(* !a is AllBits \ a.  The other termios fields are copied along by every  *)
(* operation and never written, so they are left out.                      *)
(***************************************************************************)
EXTENDS Naturals, Integers, Sequences, FiniteSets, TLC

\* Width of the modelled flag word (the real one has 32 bits).
LFlagBits == 4
\* Longest terminal input that is pending when a session starts.
MaxInput == 2
\* Most Terminal objects live at once where several are allowed.
MaxSessions == 2

VARIABLES
    platform,    \* "unix" or "windows": which sys module is compiled in
    isatty,      \* descriptor (0 stdin, 1 stdout, 2 stderr) -> is it a terminal
    devtty,      \* /dev/tty: "absent" (open fails), "notatty" or "tty"
    os_mode,     \* the flag word the OS holds for the terminal
    input,       \* bytes the terminal will still deliver, end of sequence = end of input
    out,         \* bytes written to the terminal by the current call
    sessions,    \* the live Terminal objects, in the order they were opened
    pc,          \* position inside prompt_sensitive, "idle" between calls
    call,        \* name of the current (or last) call
    self,        \* the Terminal object the current (or last) call works on
    text,        \* argument `prompt` of the current call
    old_mode,    \* local `old_mode` of prompt_sensitive
    line,        \* local `line` of prompt_sensitive
    ret,         \* what the last call returned
    failed,      \* the OS calls that failed during the current (or last) call
    sets,        \* history: the modes the current call passed to set_terminal_mode
    mode0,       \* history: os_mode when the current call started
    input0,      \* history: input when the current call started
    nest,        \* history: most Terminal objects live at once since none was live
    fds,         \* the descriptors the process holds open
    snap,        \* a TerminalMode value a mutator is applied to
    prev_snap,   \* history: snap before the last mutator
    mut_op       \* history: the last mutator applied to snap

env   == <<platform, isatty, devtty>>
term  == <<os_mode, input, out>>
frame == <<pc, call, self, text, old_mode, line, ret, failed, sets, mode0, input0>>
pure  == <<snap, prev_snap, mut_op>>
vars  == <<env, term, sessions, frame, nest, fds, pure>>

----------------------------------------------------------------------------
(* Flag words *)

AllBits == 0 .. (LFlagBits - 1)
Modes   == SUBSET AllBits

BitOr(a, b)  == a \cup b
BitAnd(a, b) == a \cap b
BitNot(a)    == AllBits \ a

\* libc::ICANON = 0o2 and libc::ECHO = 0o10 (Linux): bits 1 and 3.
ICANON == {1}
ECHO   == {3}
\* winapi ENABLE_LINE_INPUT = 0x2 and ENABLE_ECHO_INPUT = 0x4: bits 1 and 2.
ENABLE_LINE_INPUT == {1}
ENABLE_ECHO_INPUT == {2}

Platforms == {"unix", "windows"}

----------------------------------------------------------------------------
(* TerminalMode, src/sys/unix.rs *)

unix_enable_line_editing(m) == BitOr(m, ICANON)

unix_disable_echo(m) == BitAnd(BitAnd(m, BitNot(ECHO)), BitNot(ICANON))

unix_enable_echo(m) == BitOr(BitOr(m, ECHO), BitNot(ICANON))

unix_is_echo_enabled(m) == BitAnd(m, ECHO) # {}

(* TerminalMode, src/sys/windows.rs *)

windows_enable_line_editing(m) == BitOr(m, ENABLE_LINE_INPUT)

windows_disable_echo(m) == BitAnd(m, BitNot(ENABLE_ECHO_INPUT))

windows_enable_echo(m) == BitOr(m, ENABLE_ECHO_INPUT)

windows_is_echo_enabled(m) == BitAnd(m, ENABLE_ECHO_INPUT) # {}

(* sys::TerminalMode as the facade sees it: the compiled-in platform's.  *)

\* Slip: the copy of enable_echo's body, line-editing flag and echo flag both set.
enable_line_editing_and_echo(m) ==
    IF platform = "unix" THEN BitOr(BitOr(m, ICANON), ECHO)
                         ELSE BitOr(BitOr(m, ENABLE_LINE_INPUT), ENABLE_ECHO_INPUT)

\* Slip: the wrong flag is set.
enable_line_editing_wrong_flag(m) ==
    IF platform = "unix" THEN BitOr(m, ECHO) ELSE BitOr(m, ENABLE_ECHO_INPUT)

enable_line_editing(m) ==
    IF platform = "unix" THEN unix_enable_line_editing(m)
                         ELSE windows_enable_line_editing(m)

\* Slip: only the line-editing flag is cleared, the echo flag is left alone.
disable_echo_wrong_flag(m) ==
    IF platform = "unix" THEN BitAnd(m, BitNot(ICANON))
                         ELSE BitAnd(m, BitNot(ENABLE_LINE_INPUT))

disable_echo(m) ==
    IF platform = "unix" THEN unix_disable_echo(m) ELSE windows_disable_echo(m)

\* Slip: the echo flag is toggled (^=) instead of set (|=).
enable_echo_toggle(m) ==
    IF platform = "unix" THEN (m \ ECHO) \cup (ECHO \ m)
                         ELSE (m \ ENABLE_ECHO_INPUT) \cup (ENABLE_ECHO_INPUT \ m)

enable_echo(m) ==
    IF platform = "unix" THEN unix_enable_echo(m) ELSE windows_enable_echo(m)

is_echo_enabled(m) ==
    IF platform = "unix" THEN unix_is_echo_enabled(m)
                         ELSE windows_is_echo_enabled(m)

----------------------------------------------------------------------------
(* Terminal discovery, sys::Terminal::open *)

StdFds == {0, 1, 2}

NoHandle == [kind |-> "None", fd |-> 0]

OkHandle(h)  == [ok |-> TRUE, handle |-> h, err |-> "none"]
ErrHandle(e) == [ok |-> FALSE, handle |-> NoHandle, err |-> e]

\* isatty(fd) == 1; descriptor 3 is the one a successful open of /dev/tty returns.
is_terminal(fd) == IF fd \in StdFds THEN isatty[fd] ELSE devtty = "tty"

open_fd_terminal(fd) ==
    IF is_terminal(fd) THEN [kind |-> "Stdio", fd |-> fd] ELSE NoHandle

\* Slip: standard input is probed before standard error.
unix_open_stdin_first ==
    IF open_fd_terminal(0) # NoHandle THEN OkHandle(open_fd_terminal(0))
    ELSE IF open_fd_terminal(2) # NoHandle THEN OkHandle(open_fd_terminal(2))
    ELSE IF open_fd_terminal(1) # NoHandle THEN OkHandle(open_fd_terminal(1))
    ELSE IF devtty = "absent" THEN ErrHandle("open /dev/tty")
    ELSE IF is_terminal(3) THEN OkHandle([kind |-> "File", fd |-> 3])
    ELSE ErrHandle("ENOTTY")

\* Slip: /dev/tty is used without the is_terminal test.
unix_open_unchecked_tty ==
    IF open_fd_terminal(2) # NoHandle THEN OkHandle(open_fd_terminal(2))
    ELSE IF open_fd_terminal(0) # NoHandle THEN OkHandle(open_fd_terminal(0))
    ELSE IF open_fd_terminal(1) # NoHandle THEN OkHandle(open_fd_terminal(1))
    ELSE IF devtty = "absent" THEN ErrHandle("open /dev/tty")
    ELSE OkHandle([kind |-> "File", fd |-> 3])

unix_open ==
    IF open_fd_terminal(2) # NoHandle THEN OkHandle(open_fd_terminal(2))
    ELSE IF open_fd_terminal(0) # NoHandle THEN OkHandle(open_fd_terminal(0))
    ELSE IF open_fd_terminal(1) # NoHandle THEN OkHandle(open_fd_terminal(1))
    ELSE IF devtty = "absent" THEN ErrHandle("open /dev/tty")
    ELSE IF is_terminal(3) THEN OkHandle([kind |-> "File", fd |-> 3])
    ELSE ErrHandle("ENOTTY")

\* Slip: standard error is checked before standard input.
windows_open_stderr_first ==
    IF ~is_terminal(2) THEN ErrHandle("stderr is not a terminal")
    ELSE IF ~is_terminal(0) THEN ErrHandle("stdin is not a terminal")
    ELSE OkHandle([kind |-> "Console", fd |-> 0])

\* The console handle reads stdin and writes stderr; its mode is stdin's.
windows_open ==
    IF ~is_terminal(0) THEN ErrHandle("stdin is not a terminal")
    ELSE IF ~is_terminal(2) THEN ErrHandle("stderr is not a terminal")
    ELSE OkHandle([kind |-> "Console", fd |-> 0])

sys_open == IF platform = "unix" THEN unix_open ELSE windows_open

----------------------------------------------------------------------------
(* Values *)

LF == "\n"
Alphabet == {"a", LF}

SeqsUpTo(S, n) == UNION {[1 .. k -> S] : k \in 0 .. n}

Inputs  == SeqsUpTo(Alphabet, MaxInput)
\* The prompt texts tried: the empty one, and one a failing write can cut short.
Prompts == {<<>>, <<"p", "q">>}

Unit == <<>>
Ok(v)  == [ok |-> TRUE, val |-> v, err |-> "none"]
Err(e) == [ok |-> FALSE, val |-> Unit, err |-> e]

\* A Terminal object: its handle and initial_mode, and as history the OS mode
\* at its open(), the OS mode when the oldest object live at its open() was
\* opened, and how many objects were live once it was opened.
NoSelf == [handle |-> NoHandle, initial_mode |-> {}, mode_at_open |-> {},
           base |-> {}, depth |-> 0]

RemoveAt(q, i) == SubSeq(q, 1, i - 1) \o SubSeq(q, i + 1, Len(q))
DropFirst(q, k) == SubSeq(q, k + 1, Len(q))

----------------------------------------------------------------------------
(* Line reading and prompt writing, src/lib.rs *)

\* BufRead::read_line: the bytes up to and including the first line feed, or
\* everything up to the end of input.
RECURSIVE read_line(_)
read_line(in) ==
    IF in = <<>> THEN <<>>
    ELSE IF Head(in) = LF THEN <<LF>>
    ELSE <<Head(in)>> \o read_line(Tail(in))

\* Slip: buffer.pop() without the ends_with test.
strip_terminator_always(buffer) ==
    IF buffer # <<>> THEN SubSeq(buffer, 1, Len(buffer) - 1) ELSE buffer

\* if buffer.ends_with('\n') { buffer.pop(); }
strip_terminator(buffer) ==
    IF buffer # <<>> /\ buffer[Len(buffer)] = LF
    THEN SubSeq(buffer, 1, Len(buffer) - 1)
    ELSE buffer

\* Terminal::is_echo_enabled: a live query of the OS mode.
echo_query(getOk) == IF getOk THEN Ok(is_echo_enabled(os_mode)) ELSE Err("get")

\* Slip: self.is_echo_enabled().ok() != Some(true)
wants_newline_unless_on(q) == ~(q.ok /\ q.val = TRUE)

\* self.is_echo_enabled().ok() == Some(false)
wants_newline(q) == q.ok /\ q.val = FALSE

\* How many bytes a failing read_line may have consumed before the error: any
\* part of the line short of its line feed.
ReadFailPoints(in) == 0 .. Len(strip_terminator(read_line(in)))

\* The outcomes of the OS calls inside read_input_line.
ReadFaults(in) ==
    [readOk : BOOLEAN, k : ReadFailPoints(in), getOk : BOOLEAN, nlOk : BOOLEAN]

\* Terminal::read_input_line on pending input `in`, with `o` already written.
\* readOk, getOk, nlOk: whether the read, the mode query and the newline
\* write succeed; k: the bytes consumed by a read that fails.
read_input_line(in, o, readOk, k, getOk, nlOk) ==
    IF ~readOk
    THEN [ret |-> Err("read"), input |-> DropFirst(in, k), out |-> o,
          failed |-> {"read"}]
    ELSE LET buffer == read_line(in)
             nl == wants_newline(echo_query(getOk))
         IN  [ret |-> Ok(strip_terminator(buffer)),
              input |-> DropFirst(in, Len(buffer)),
              out |-> IF nl /\ nlOk THEN Append(o, LF) ELSE o,
              failed |-> (IF getOk THEN {} ELSE {"echo_query"})
                         \cup (IF nl /\ ~nlOk THEN {"newline"} ELSE {})]

\* write!(self, "{prompt}"): all of t, or an error after a proper prefix of it.
WriteFailPoints(t) == 0 .. (Len(t) - 1)
write_prompt(t, wOk, k) ==
    IF wOk \/ t = <<>> THEN [ok |-> TRUE, out |-> t]
    ELSE [ok |-> FALSE, out |-> SubSeq(t, 1, k)]

----------------------------------------------------------------------------
(* The facade, src/lib.rs.  A call that makes several OS calls is one action *)
(* that draws the outcome of each OS call; prompt_sensitive is cut at the    *)
(* points where the terminal is visibly in its intermediate state.           *)

Idle == pc = "idle"

\* What every call does on entry (history only).
Enter(name, me) ==
    /\ call' = name
    /\ self' = me
    /\ mode0' = os_mode
    /\ input0' = input

\* The locals of prompt_sensitive, out of scope outside it.
NoLocals == [old_mode |-> {}, line |-> [ok |-> TRUE, val |-> <<>>, err |-> "none"]]

\* Terminal::open.  `limit`: how many Terminal objects may be live at once.
\* unix.rs lines 33-38: only the File variant comes from a File::open; a
\* File that open() does not return (not a terminal, or a later step of
\* open() failed) is dropped, and so closed, before open() returns.
opens_descriptor(h) == h.kind = "File"

Open(limit) ==
    /\ Idle
    /\ Len(sessions) < limit
    /\ \E getOk \in BOOLEAN, setOk \in BOOLEAN :
         LET terminal == sys_open
             initial_mode == os_mode
             mode == enable_line_editing(initial_mode)
             me == [handle |-> terminal.handle, initial_mode |-> initial_mode,
                    mode_at_open |-> os_mode,
                    base |-> IF sessions = <<>> THEN os_mode ELSE sessions[1].base,
                    depth |-> Len(sessions) + 1]
             good == terminal.ok /\ getOk /\ setOk
         IN  /\ Enter("open", IF good THEN me ELSE NoSelf)
             /\ ret' = IF ~terminal.ok THEN Err(terminal.err)
                       ELSE IF ~getOk THEN Err("get")
                       ELSE IF ~setOk THEN Err("set")
                       ELSE Ok(Unit)
             /\ failed' = IF ~terminal.ok THEN {"open"}
                          ELSE IF ~getOk THEN {"get"}
                          ELSE IF ~setOk THEN {"set"}
                          ELSE {}
             /\ sets' = IF terminal.ok /\ getOk THEN <<mode>> ELSE <<>>
             /\ os_mode' = IF good THEN mode ELSE os_mode
             /\ sessions' = IF good THEN Append(sessions, me) ELSE sessions
             /\ nest' = IF ~good THEN nest
                        ELSE IF sessions = <<>> \/ nest < me.depth THEN me.depth
                        ELSE nest
             /\ fds' = IF good /\ opens_descriptor(terminal.handle)
                       THEN fds \cup {terminal.handle.fd} ELSE fds
    /\ out' = <<>>
    /\ text' = <<>>
    /\ UNCHANGED <<env, input, pc, old_mode, line, pure>>

\* Terminal::is_echo_enabled
IsEchoEnabled(s) ==
    /\ Idle
    /\ \E getOk \in BOOLEAN :
         /\ ret' = echo_query(getOk)
         /\ failed' = IF getOk THEN {} ELSE {"get"}
    /\ sets' = <<>>
    /\ Enter("is_echo_enabled", sessions[s])
    /\ out' = <<>>
    /\ text' = <<>>
    /\ UNCHANGED <<env, os_mode, input, sessions, pc, old_mode, line, pure, nest, fds>>

\* get_terminal_mode()?, mutate, set_terminal_mode()?: the body shared by
\* Terminal::disable_echo and Terminal::enable_echo.
Toggle(name, s, mode) ==
    /\ Idle
    /\ \E getOk \in BOOLEAN, setOk \in BOOLEAN :
         /\ ret' = IF ~getOk THEN Err("get") ELSE IF ~setOk THEN Err("set")
                   ELSE Ok(Unit)
         /\ failed' = IF ~getOk THEN {"get"} ELSE IF ~setOk THEN {"set"} ELSE {}
         /\ sets' = IF getOk THEN <<mode>> ELSE <<>>
         /\ os_mode' = IF getOk /\ setOk THEN mode ELSE os_mode
    /\ Enter(name, sessions[s])
    /\ out' = <<>>
    /\ text' = <<>>
    /\ UNCHANGED <<env, input, sessions, pc, old_mode, line, pure, nest, fds>>

\* Terminal::disable_echo
DisableEcho(s) == Toggle("disable_echo", s, disable_echo(os_mode))

\* Terminal::enable_echo
EnableEcho(s) == Toggle("enable_echo", s, enable_echo(os_mode))

\* Terminal::read_input_line
ReadInputLine(s) ==
    /\ Idle
    /\ \E r \in {read_input_line(input, <<>>, f.readOk, f.k, f.getOk, f.nlOk) :
                   f \in ReadFaults(input)} :
         /\ ret' = r.ret
         /\ input' = r.input
         /\ out' = r.out
         /\ failed' = r.failed
    /\ Enter("read_input_line", sessions[s])
    /\ text' = <<>>
    /\ sets' = <<>>
    /\ UNCHANGED <<env, os_mode, sessions, pc, old_mode, line, pure, nest, fds>>

\* The outcomes of the write of prompt text t.
WriteFaults(t) == [wOk : BOOLEAN, k : WriteFailPoints(t) \cup {0}]

\* Slip: the line is read before the prompt is written.
prompt_reads_first(t, in, wf, rf) ==
    LET r == read_input_line(in, <<>>, rf.readOk, rf.k, rf.getOk, rf.nlOk)
        w == write_prompt(t, wf.wOk, wf.k)
    IN  IF ~r.ret.ok THEN r
        ELSE IF w.ok THEN [r EXCEPT !.out = r.out \o w.out]
        ELSE [ret |-> Err("write"), input |-> r.input, out |-> r.out \o w.out,
              failed |-> {"write"}]

\* Terminal::prompt with text t: write!(self, "{prompt}")? and then
\* self.read_input_line().
prompt(t, in, wf, rf) ==
    LET w == write_prompt(t, wf.wOk, wf.k)
        r == read_input_line(in, w.out, rf.readOk, rf.k, rf.getOk, rf.nlOk)
    IN  IF w.ok THEN r
        ELSE [ret |-> Err("write"), input |-> in, out |-> w.out,
              failed |-> {"write"}]

Prompt(s) ==
    /\ Idle
    /\ \E t \in Prompts :
         \E r \in {prompt(t, input, wf, rf) :
                     wf \in WriteFaults(t), rf \in ReadFaults(input)} :
           /\ text' = t
           /\ ret' = r.ret
           /\ input' = r.input
           /\ out' = r.out
           /\ failed' = r.failed
    /\ Enter("prompt", sessions[s])
    /\ sets' = <<>>
    /\ UNCHANGED <<env, os_mode, sessions, pc, old_mode, line, pure, nest, fds>>

\* Terminal::prompt_sensitive, lines 138-143: capture the mode, disable echo
\* if it is on.
PromptSensitive(s) ==
    /\ Idle
    /\ \E t \in Prompts, getOk \in BOOLEAN, setOk \in BOOLEAN :
         LET old == os_mode
             new_mode == disable_echo(old)
             setFails == is_echo_enabled(old) /\ ~setOk
             entered == getOk /\ ~setFails
         IN  /\ text' = t
             /\ old_mode' = IF entered THEN old ELSE NoLocals.old_mode
             /\ os_mode' = IF getOk /\ is_echo_enabled(old) /\ setOk
                           THEN new_mode ELSE os_mode
             /\ sets' = IF getOk /\ is_echo_enabled(old) THEN <<new_mode>>
                        ELSE <<>>
             /\ failed' = IF ~getOk THEN {"get"}
                          ELSE IF setFails THEN {"set"} ELSE {}
             /\ ret' = IF ~getOk THEN Err("get")
                       ELSE IF setFails THEN Err("set") ELSE Ok(Unit)
             /\ pc' = IF entered THEN "ps_write" ELSE "idle"
    /\ Enter("prompt_sensitive", sessions[s])
    /\ out' = <<>>
    /\ UNCHANGED <<env, input, sessions, line, pure, nest, fds>>

\* line 144: write!(self, "{prompt}")?
PromptSensitiveWrite ==
    /\ pc = "ps_write"
    /\ \E w \in {write_prompt(text, wf.wOk, wf.k) : wf \in WriteFaults(text)} :
         /\ out' = w.out
         /\ pc' = IF w.ok THEN "ps_read" ELSE "idle"
         /\ ret' = IF w.ok THEN ret ELSE Err("write")
         /\ failed' = IF w.ok THEN failed ELSE {"write"}
         /\ old_mode' = IF w.ok THEN old_mode ELSE NoLocals.old_mode
    /\ UNCHANGED <<env, os_mode, input, sessions, call, self, text, line,
                   sets, mode0, input0, pure, nest, fds>>

\* line 145: let line = self.read_input_line();
PromptSensitiveRead ==
    /\ pc = "ps_read"
    /\ \E r \in {read_input_line(input, out, f.readOk, f.k, f.getOk, f.nlOk) :
                   f \in ReadFaults(input)} :
         /\ line' = r.ret
         /\ input' = r.input
         /\ out' = r.out
         /\ failed' = r.failed
    /\ pc' = "ps_restore"
    /\ UNCHANGED <<env, os_mode, sessions, call, self, text, old_mode, ret,
                   sets, mode0, input0, pure, nest, fds>>

\* Slip: the restoring branch is never taken.
restores_echo_never(old) == FALSE

\* line 146: if old_mode.is_echo_enabled()
restores_echo(old) == is_echo_enabled(old)

\* Slip: set_terminal_mode(&old_mode)? in place of .ok()
ps_return_propagates(ln, restoreFailed) ==
    IF restoreFailed THEN Err("set") ELSE ln

\* lines 147-149: the result of the restoring set is discarded, `line` is
\* what prompt_sensitive returns.
ps_return(ln, restoreFailed) == ln

\* lines 146-149: set the old mode back if echo was on, return the line.
PromptSensitiveRestore ==
    /\ pc = "ps_restore"
    /\ \E setOk \in BOOLEAN :
         LET restore == restores_echo(old_mode)
         IN  /\ os_mode' = IF restore /\ setOk THEN old_mode ELSE os_mode
             /\ sets' = IF restore THEN Append(sets, old_mode) ELSE sets
             /\ failed' = IF restore /\ ~setOk THEN failed \cup {"restore"}
                          ELSE failed
             /\ ret' = ps_return(line, restore /\ ~setOk)
    /\ pc' = "idle"
    /\ old_mode' = NoLocals.old_mode
    /\ line' = NoLocals.line
    /\ UNCHANGED <<env, input, out, sessions, call, self, text, mode0, input0, pure, nest, fds>>

\* Slip: teardown writes back the working mode open() derived.
drop_mode_working(me) == enable_line_editing(me.initial_mode)

\* line 155: the mode teardown passes to set_terminal_mode.
drop_mode(me) == me.initial_mode

\* Slip: the standard stream is held as a plain File, closed when dropped.
closes_on_drop_always(h) == TRUE

\* sys Terminal: Stdio holds a ManuallyDrop<File>, whose descriptor is left
\* open when the value is dropped; File holds a File, which closes its
\* descriptor; the Windows handles are the process's standard handles.
closes_on_drop(h) == h.kind = "File"

\* impl Drop for Terminal: the mode is set back, then the field `terminal`
\* is dropped.
Drop(s) ==
    /\ Idle
    /\ \E setOk \in BOOLEAN :
         /\ os_mode' = IF setOk THEN drop_mode(sessions[s]) ELSE os_mode
         /\ failed' = IF setOk THEN {} ELSE {"set"}
    /\ sets' = <<drop_mode(sessions[s])>>
    /\ sessions' = RemoveAt(sessions, s)
    /\ fds' = IF closes_on_drop(sessions[s].handle)
              THEN fds \ {sessions[s].handle.fd} ELSE fds
    /\ ret' = Ok(Unit)
    /\ Enter("drop", sessions[s])
    /\ out' = <<>>
    /\ text' = <<>>
    /\ UNCHANGED <<env, input, pc, old_mode, line, pure, nest>>

----------------------------------------------------------------------------
(* One Terminal object at a time *)

NoFrame ==
    /\ pc = "idle"
    /\ call = "none"
    /\ self = NoSelf
    /\ text = <<>>
    /\ old_mode = NoLocals.old_mode
    /\ line = NoLocals.line
    /\ ret = Ok(Unit)
    /\ failed = {}
    /\ sets = <<>>
    /\ mode0 = os_mode
    /\ input0 = input

NoPure == snap = {} /\ prev_snap = {} /\ mut_op = "none"

NoneOpened == sessions = <<>> /\ nest = 0 /\ fds = StdFds

\* Every standard stream is a terminal, or none is and /dev/tty is.
SessionStreams == {[fd \in StdFds |-> TRUE], [fd \in StdFds |-> FALSE]}

Init ==
    /\ platform \in Platforms
    /\ isatty \in SessionStreams
    /\ devtty = "tty"
    /\ os_mode \in Modes
    /\ input \in Inputs
    /\ out = <<>>
    /\ NoneOpened
    /\ NoFrame
    /\ NoPure

Next ==
    \/ Open(1)
    \/ \E s \in DOMAIN sessions :
         \/ IsEchoEnabled(s)
         \/ DisableEcho(s)
         \/ EnableEcho(s)
         \/ ReadInputLine(s)
         \/ Prompt(s)
         \/ PromptSensitive(s)
         \/ Drop(s)
    \/ PromptSensitiveWrite
    \/ PromptSensitiveRead
    \/ PromptSensitiveRestore

Spec == Init /\ [][Next]_vars

----------------------------------------------------------------------------
(* Several Terminal objects on the same terminal *)

\* The modes that differ in the two facets only: line editing and echo, each
\* on or off, every other flag clear.
FacetModes ==
    IF platform = "unix" THEN SUBSET (ICANON \cup ECHO)
                         ELSE SUBSET (ENABLE_LINE_INPUT \cup ENABLE_ECHO_INPUT)

InitNested ==
    /\ platform \in Platforms
    /\ isatty = [fd \in StdFds |-> TRUE]
    /\ devtty = "tty"
    /\ os_mode \in FacetModes
    /\ input = <<>>
    /\ out = <<>>
    /\ NoneOpened
    /\ NoFrame
    /\ NoPure

\* Stack discipline: only the object opened last is used, and it is the one
\* dropped.
NextLifo ==
    \/ Open(MaxSessions)
    \/ \E s \in DOMAIN sessions :
         /\ s = Len(sessions)
         /\ \/ IsEchoEnabled(s)
            \/ DisableEcho(s)
            \/ EnableEcho(s)
            \/ ReadInputLine(s)
            \/ Prompt(s)
            \/ PromptSensitive(s)
            \/ Drop(s)
    \/ PromptSensitiveWrite
    \/ PromptSensitiveRead
    \/ PromptSensitiveRestore

SpecLifo == InitNested /\ [][NextLifo]_vars

\* No discipline: any live object has its echo toggled or is dropped.
NextAnyOrder ==
    \/ Open(MaxSessions)
    \/ \E s \in DOMAIN sessions :
         \/ DisableEcho(s)
         \/ EnableEcho(s)
         \/ Drop(s)

SpecAnyOrder == InitNested /\ [][NextAnyOrder]_vars

----------------------------------------------------------------------------
(* Terminal discovery over every combination of streams *)

InitDiscovery ==
    /\ platform \in Platforms
    /\ isatty \in [StdFds -> BOOLEAN]
    /\ devtty \in {"absent", "notatty", "tty"}
    /\ os_mode \in Modes
    /\ input = <<>>
    /\ out = <<>>
    /\ NoneOpened
    /\ NoFrame
    /\ NoPure

NextDiscovery ==
    \/ Open(1)
    \/ \E s \in DOMAIN sessions : Drop(s)

SpecDiscovery == InitDiscovery /\ [][NextDiscovery]_vars

----------------------------------------------------------------------------
(* The TerminalMode mutators applied to every snapshot *)

Mutate(name, m) ==
    /\ prev_snap' = snap
    /\ snap' = m
    /\ mut_op' = name
    /\ UNCHANGED <<env, term, sessions, frame, nest, fds>>

MutEnableLineEditing == Mutate("enable_line_editing", enable_line_editing(snap))
MutDisableEcho == Mutate("disable_echo", disable_echo(snap))
MutEnableEcho == Mutate("enable_echo", enable_echo(snap))

InitMode ==
    /\ platform \in Platforms
    /\ isatty = [fd \in StdFds |-> TRUE]
    /\ devtty = "tty"
    /\ os_mode = {}
    /\ input = <<>>
    /\ out = <<>>
    /\ NoneOpened
    /\ NoFrame
    /\ snap \in Modes
    /\ prev_snap = snap
    /\ mut_op = "none"

NextMode == MutEnableLineEditing \/ MutDisableEcho \/ MutEnableEcho

SpecMode == InitMode /\ [][NextMode]_vars

----------------------------------------------------------------------------
(* Vocabulary of the properties *)

LineEditingMask == IF platform = "unix" THEN ICANON ELSE ENABLE_LINE_INPUT
EchoMask        == IF platform = "unix" THEN ECHO ELSE ENABLE_ECHO_INPUT

LineEditingOn(m) == LineEditingMask \subseteq m
EchoOn(m)        == EchoMask \subseteq m

\* The call `name` has returned and nothing was called since.
Returned(name) == call = name /\ pc = "idle"

HasLF(q)    == \E i \in DOMAIN q : q[i] = LF
FirstLF(q)  == CHOOSE i \in DOMAIN q : q[i] = LF /\ \A j \in 1 .. (i - 1) : q[j] # LF
BeforeLF(q) == IF HasLF(q) THEN SubSeq(q, 1, FirstLF(q) - 1) ELSE q
AfterLF(q)  == IF HasLF(q) THEN SubSeq(q, FirstLF(q) + 1, Len(q)) ELSE <<>>

ModeCalls == {"get", "set", "restore", "echo_query"}

----------------------------------------------------------------------------
(* Properties of the single-session facade, checked under Spec *)

\* C1: right after the drop of a session whose restoring set_terminal_mode
\* succeeded, the OS mode is, flag for flag, the mode the OS held when open()
\* captured it, whatever calls were made on the session in between.
C1_TeardownRestoresInitialMode ==
    (Returned("drop") /\ failed = {}) => os_mode = self.mode_at_open

\* C1 witness: a drop that had something to undo: the session had left echo
\* and line editing both different from what they were at open().
C1_Witness ==
    /\ Returned("drop") /\ failed = {}
    /\ EchoOn(mode0) # EchoOn(os_mode)
    /\ LineEditingOn(mode0) # LineEditingOn(os_mode)
    /\ os_mode = self.mode_at_open

\* C2: inside prompt_sensitive the OS echo flag is off from before the prompt
\* is written until the line has been read: it is off when nothing is written
\* yet and no input is consumed, off while the line is read with the prompt
\* written, and still off when the line has been read and the restore is
\* pending.  When the set_terminal_mode that disables echo fails, the call
\* returns that error with nothing written and no input read.
C2_SensitiveNeverEchoes ==
    /\ pc \in {"ps_write", "ps_read", "ps_restore"} => ~EchoOn(os_mode)
    /\ pc = "ps_write" => out = <<>> /\ input = input0
    /\ pc = "ps_read" => out = text /\ input = input0
    /\ (Returned("prompt_sensitive") /\ "set" \in failed) =>
          /\ EchoOn(mode0)
          /\ ret = Err("set")
          /\ out = <<>>
          /\ input = input0

\* C2 witness: echo was on before the call, the prompt is written and the
\* line has been read with the echo flag off.
C2_Witness ==
    /\ pc = "ps_restore"
    /\ EchoOn(mode0) /\ ~EchoOn(os_mode)
    /\ line.ok /\ line.val # <<>>
    /\ text # <<>> /\ input # input0

\* C3: when prompt_sensitive returns a line and every mode call succeeded,
\* the line is the input up to its first line feed, without the line feed,
\* and the OS echo state is what it was before the call: with echo on before,
\* two modes were set (one with echo off, then the old mode); with echo off
\* before, no mode was set.
C3_SensitiveRoundTrip ==
    (Returned("prompt_sensitive") /\ ret.ok /\ failed \cap ModeCalls = {}) =>
        /\ ret.val = BeforeLF(input0)
        /\ EchoOn(os_mode) = EchoOn(mode0)
        /\ EchoOn(mode0) =>
              /\ Len(sets) = 2 /\ ~EchoOn(sets[1]) /\ sets[2] = mode0
              /\ os_mode = mode0
        /\ ~EchoOn(mode0) => sets = <<>> /\ os_mode = mode0

\* C3 witness: a non-empty line returned by a call made with echo on, echo on
\* again afterwards.
C3_Witness ==
    /\ Returned("prompt_sensitive") /\ ret.ok /\ failed = {}
    /\ ret.val # <<>> /\ HasLF(input0)
    /\ EchoOn(mode0) /\ EchoOn(os_mode)

\* C4: after a successful open() the OS mode has line editing on, its echo
\* flag is the one the OS had before open() (so is_echo_enabled() answers
\* what it would have answered before), and no flag but the line-editing
\* flag differs from the mode before open().
C4_OpenOnlyEnablesLineEditing ==
    (Returned("open") /\ ret.ok) =>
        /\ LineEditingOn(os_mode)
        /\ EchoOn(os_mode) = EchoOn(mode0)
        /\ echo_query(TRUE) = Ok(EchoOn(mode0))
        /\ os_mode \ LineEditingMask = mode0 \ LineEditingMask

\* C4 witness: open() on a terminal that had line editing off and echo off.
C4_Witness ==
    /\ Returned("open") /\ ret.ok
    /\ ~LineEditingOn(mode0) /\ ~EchoOn(mode0)
    /\ LineEditingOn(os_mode)

\* C8: a successful read_input_line returns the pending input up to and
\* excluding its first line feed and consumes that line feed and nothing
\* after it; when the input ends without a line feed it returns all of it.
C8_ReadInputLineStripsOneTerminator ==
    (Returned("read_input_line") /\ ret.ok) =>
        /\ ret.val = BeforeLF(input0)
        /\ input = AfterLF(input0)
        /\ HasLF(input0) => Len(input0) = Len(ret.val) + 1 + Len(input)

\* C8 witness: a line with content and a terminator was read.
C8_Witness ==
    /\ Returned("read_input_line") /\ ret.ok
    /\ HasLF(input0) /\ ret.val # <<>>

----------------------------------------------------------------------------
(* Properties of the mode mutators, checked under SpecMode *)

\* C5: on either platform disable_echo and enable_echo leave the
\* line-editing flag as it was in the snapshot they were applied to.
C5_EchoMutatorsKeepLineEditing ==
    mut_op \in {"disable_echo", "enable_echo"} =>
        LineEditingOn(snap) = LineEditingOn(prev_snap)

\* C6: whatever the snapshot, is_echo_enabled is true of enable_echo's
\* result and false of disable_echo's, and applying the mutator once more
\* gives the same answer.
C6_EchoOverride ==
    /\ mut_op = "enable_echo" =>
          is_echo_enabled(snap) /\ is_echo_enabled(enable_echo(snap))
    /\ mut_op = "disable_echo" =>
          ~is_echo_enabled(snap) /\ ~is_echo_enabled(disable_echo(snap))

\* C6 witness: enable_echo applied to a snapshot with echo off.
C6_Witness ==
    mut_op = "enable_echo" /\ ~is_echo_enabled(prev_snap) /\ is_echo_enabled(snap)

\* C7: enable_line_editing leaves the answer of is_echo_enabled as it was
\* and its result has line editing on.
C7_LineEditingKeepsEcho ==
    mut_op = "enable_line_editing" =>
        /\ is_echo_enabled(snap) = is_echo_enabled(prev_snap)
        /\ LineEditingOn(snap)

\* C7 witness: enable_line_editing applied to a snapshot with line editing
\* off and echo on.
C7_Witness ==
    /\ mut_op = "enable_line_editing"
    /\ ~LineEditingOn(prev_snap) /\ is_echo_enabled(prev_snap)
    /\ LineEditingOn(snap)

----------------------------------------------------------------------------
(* Properties of terminal discovery, checked under SpecDiscovery *)

DiscoveryOrder == <<2, 0, 1>>
TerminalStreams == {i \in DOMAIN DiscoveryOrder : isatty[DiscoveryOrder[i]]}
FirstTerminalStream ==
    DiscoveryOrder[CHOOSE i \in TerminalStreams : \A j \in TerminalStreams : i <= j]

\* C10: on Unix open() takes, as a borrowed handle, the first of standard
\* error, standard input, standard output that is a terminal; only when none
\* is does it open /dev/tty and own it; when that open fails or the device is
\* no terminal, open() fails and there is no handle.
C10_UnixDiscoveryOrder ==
    (Returned("open") /\ platform = "unix") =>
        /\ TerminalStreams # {} =>
              /\ "open" \notin failed
              /\ ret.ok => self.handle = [kind |-> "Stdio", fd |-> FirstTerminalStream]
        /\ (TerminalStreams = {} /\ devtty = "tty") =>
              /\ "open" \notin failed
              /\ ret.ok => self.handle.kind = "File"
        /\ (TerminalStreams = {} /\ devtty # "tty") =>
              /\ ~ret.ok /\ failed = {"open"}
              /\ self = NoSelf /\ sessions = <<>>

\* C10 witness: standard error is no terminal, standard input and standard
\* output are, and open() took standard input.
C10_Witness ==
    /\ Returned("open") /\ platform = "unix" /\ ret.ok
    /\ ~isatty[2] /\ isatty[0] /\ isatty[1]
    /\ self.handle = [kind |-> "Stdio", fd |-> 0]

\* C11: on Windows discovery succeeds exactly when standard input and
\* standard error are both consoles; otherwise open() returns the error that
\* names the failing stream, standard input when both fail; /dev/tty is never
\* used, whatever its state.
C11_WindowsDiscovery ==
    (Returned("open") /\ platform = "windows") =>
        /\ ("open" \notin failed) <=> (isatty[0] /\ isatty[2])
        /\ ~isatty[0] => ret = Err("stdin is not a terminal")
        /\ (isatty[0] /\ ~isatty[2]) => ret = Err("stderr is not a terminal")
        /\ ret.ok => self.handle = [kind |-> "Console", fd |-> 0]
        /\ ~ret.ok => self = NoSelf /\ sessions = <<>>

\* C11 witness: neither stream is a console, /dev/tty is a terminal, and
\* open() has failed naming standard input.
C11_Witness ==
    /\ Returned("open") /\ platform = "windows"
    /\ ~isatty[0] /\ ~isatty[2] /\ devtty = "tty"
    /\ ret = Err("stdin is not a terminal")

----------------------------------------------------------------------------
(* Properties of several sessions on one terminal *)

\* C12 as stated, checked under SpecLifo: when sessions were nested and used
\* and dropped in stack order, the OS mode after the last drop is the mode
\* the terminal had before the first open().
C12_LifoRestores ==
    (Returned("drop") /\ sessions = <<>> /\ nest >= 2) => os_mode = self.base

\* C12 amended: the same, provided the set_terminal_mode of that last drop
\* succeeded (its failure is discarded and leaves the mode as it was).
C12_LifoRestoresWhenSetSucceeds ==
    (Returned("drop") /\ sessions = <<>> /\ nest >= 2 /\ failed = {}) =>
        os_mode = self.base

\* C12 witness: the last of several nested sessions is dropped and the drop
\* changed the OS mode back to the one before the first open().
C12_Witness ==
    /\ Returned("drop") /\ sessions = <<>> /\ nest >= 2 /\ failed = {}
    /\ mode0 # os_mode
    /\ os_mode = self.base

\* C13, checked under SpecAnyOrder: a session opened while another was live
\* writes back, at its drop, the snapshot it captured at its own open(),
\* whether or not the older session is still live.
C13_DropWritesOwnSnapshot ==
    (Returned("drop") /\ self.depth > 1 /\ failed = {}) =>
        /\ sets = <<self.initial_mode>>
        /\ os_mode = self.mode_at_open

\* C13 witness: A was opened, then B; A was dropped, then B; and the OS mode
\* after the last drop differs from the mode before A was opened.
C13_Witness ==
    /\ Returned("drop") /\ sessions = <<>> /\ failed = {}
    /\ self.depth = 2 /\ nest = 2
    /\ os_mode # self.base

----------------------------------------------------------------------------
(* Further properties of the single-session facade, checked under Spec *)

IsPrefix(p, q) == Len(p) <= Len(q) /\ SubSeq(q, 1, Len(p)) = p

\* C14: prompt(text) never changes the OS mode and sets none, whether it
\* returns a line or an error; what it wrote starts with text, followed by
\* nothing else but the newline of read_input_line; and when the write of
\* text fails only a proper part of text is written and no input is read.
C14_PromptWritesThenReads ==
    Returned("prompt") =>
        /\ os_mode = mode0 /\ sets = <<>>
        /\ "write" \notin failed =>
              /\ IsPrefix(text, out)
              /\ out \in {text, Append(text, LF)}
        /\ "write" \in failed =>
              /\ ret = Err("write")
              /\ IsPrefix(out, text) /\ out # text
              /\ input = input0

\* C14 witness: the write of a non-empty prompt failed half way, with input
\* pending that was not read.
C14_Witness ==
    /\ Returned("prompt") /\ "write" \in failed
    /\ out # <<>> /\ input0 # <<>> /\ input = input0

\* C15: while a session is live, in every state between two calls and inside
\* prompt_sensitive, the OS mode has line editing on.
C15_LineEditingStaysOn ==
    sessions # <<>> => LineEditingOn(os_mode)

\* C16: after a successful enable_echo the OS echo flag is on and
\* is_echo_enabled answers true, after a successful disable_echo it is off
\* and the answer is false, whatever the flag was before; what
\* is_echo_enabled returns is the flag the OS holds at the call; a toggle
\* whose get or set fails returns that error and leaves the OS mode alone.
C16_TogglesActOnLiveMode ==
    /\ (Returned("enable_echo") /\ ret.ok) =>
          EchoOn(os_mode) /\ echo_query(TRUE) = Ok(TRUE)
    /\ (Returned("disable_echo") /\ ret.ok) =>
          ~EchoOn(os_mode) /\ echo_query(TRUE) = Ok(FALSE)
    /\ Returned("is_echo_enabled") =>
          /\ os_mode = mode0
          /\ ret.ok => ret.val = EchoOn(os_mode)
          /\ ~ret.ok => ret = Err("get")
    /\ (call \in {"enable_echo", "disable_echo"} /\ ~ret.ok) =>
          /\ os_mode = mode0
          /\ ret \in {Err("get"), Err("set")}
          /\ failed = {ret.err}

\* C16 witness: disable_echo succeeded on a terminal that had echo on.
C16_Witness ==
    /\ Returned("disable_echo") /\ ret.ok
    /\ EchoOn(mode0) /\ ~EchoOn(os_mode)

\* C17: whenever a prompt_sensitive call made with echo on returns, with the
\* line or with an error of the prompt write or of the read, and no mode call
\* failed, the OS echo flag is what it was before the call.
C17_SensitiveRestoresOnEveryPath ==
    (Returned("prompt_sensitive") /\ EchoOn(mode0) /\ failed \cap ModeCalls = {}) =>
        EchoOn(os_mode) = EchoOn(mode0)

\* C18: when the restoring set_terminal_mode of prompt_sensitive fails, the
\* call returns what the line read returned (the line, or the read error)
\* and the mode set is not tried again; when the set_terminal_mode of a drop
\* fails, the drop still completes, without an error and without a retry.
C18_RestoreFailuresSwallowed ==
    /\ (Returned("prompt_sensitive") /\ "restore" \in failed) =>
          /\ "read" \notin failed => ret = Ok(BeforeLF(input0))
          /\ "read" \in failed => ret = Err("read")
          /\ Len(sets) = 2 /\ os_mode = sets[1]
    /\ (Returned("drop") /\ failed # {}) =>
          /\ ret = Ok(Unit)
          /\ Len(sets) = 1 /\ os_mode = mode0
          /\ sessions = <<>>

\* C18 witness: the restore failed and prompt_sensitive returned the line
\* that was typed.
C18_Witness ==
    /\ Returned("prompt_sensitive") /\ "restore" \in failed
    /\ ret.ok /\ ret.val # <<>>

----------------------------------------------------------------------------
(* Further properties of open(), checked under SpecDiscovery *)

DiscoveryFails ==
    IF platform = "unix" THEN TerminalStreams = {} /\ devtty # "tty"
                         ELSE ~(isatty[0] /\ isatty[2])

\* C19: open() fails when discovery, the initial get_terminal_mode or the
\* set_terminal_mode does; it then returns that error, creates no session
\* and leaves the OS mode as it was before the call.
C19_FailedOpenLeavesTerminal ==
    Returned("open") =>
        /\ DiscoveryFails => ~ret.ok /\ failed = {"open"}
        /\ ret.ok <=> failed = {}
        /\ ~ret.ok =>
              /\ os_mode = mode0
              /\ sessions = <<>> /\ self = NoSelf
              /\ "get" \in failed => ret = Err("get") /\ sets = <<>>
              /\ "set" \in failed => ret = Err("set")

\* C19 witness: the set_terminal_mode of open() failed on a terminal with
\* line editing off, which is still off.
C19_Witness ==
    /\ Returned("open") /\ failed = {"set"}
    /\ ~LineEditingOn(os_mode)
    /\ sessions = <<>>

----------------------------------------------------------------------------
(* Ownership of the descriptor, checked under Spec *)

Borrowed(h) == h.kind \in {"Stdio", "Console"}

\* The descriptors between and after calls: the standard streams are open
\* in every state, a live session's descriptor is open, and a returned drop
\* has closed the descriptor of a File session and left that of a
\* standard-stream session open.
C20_Descriptors ==
    /\ StdFds \subseteq fds
    /\ \A i \in DOMAIN sessions : sessions[i].handle.fd \in fds
    /\ (Returned("drop") /\ Borrowed(self.handle)) =>
          self.handle.fd \in fds /\ fds = StdFds
    /\ (Returned("drop") /\ self.handle.kind = "File") =>
          self.handle.fd \notin fds

\* A step that keeps the session keeps its handle, variant and descriptor.
C20_VariantKept ==
    (sessions # <<>> /\ sessions' # <<>>) => sessions'[1].handle = sessions[1].handle

\* C20: dropping a session that uses a standard stream never closes that
\* descriptor; dropping a session that opened /dev/tty closes its
\* descriptor; and no step of a live session changes the variant of handle
\* that discovery chose.
C20_HandleOwnership ==
    /\ []C20_Descriptors
    /\ [][C20_VariantKept]_vars

\* C20 witness: a session on /dev/tty was used and dropped, and its
\* descriptor is closed.
C20_Witness ==
    /\ Returned("drop") /\ self.handle.kind = "File"
    /\ self.handle.fd \notin fds
    /\ os_mode # self.initial_mode

====
